---- MODULE Spec2Model ----
(***************************************************************************)
(* A model of the mood analyst agent: the keyword mood classifier          *)
(* (package mood), the Spotify client (package spotify) and the agent's    *)
(* command handler and recommend flow (main.go).                           *)
(*                                                                         *)
(* Go strings are TLA+ strings (sequences of characters); the float32      *)
(* audio features are written in tenths (8 stands for 0.8).                *)
(***************************************************************************)
EXTENDS Integers, Sequences, FiniteSets

VARIABLES
    pc,               \* position of the process / of the request being served
    client,           \* the spotify.Client: clientID, clientSecret, accessToken
    task,             \* the task text handed to ProcessTask
    moodDescription,  \* recommendMusic's moodDescription argument
    moodProfile,      \* the profile AnalyzeMood returned
    query,            \* recommendMusic's query
    tracks,           \* recommendMusic's tracks
    initialTracks,    \* what the first SearchTracks returned (tracks before any append)
    moreTracks,       \* recommendMusic's recs, or moreTracks after the fallback search
    seedTrackIDs,     \* recommendMusic's seedTrackIDs
    seedGenres,       \* recommendMusic's seedGenres
    trackURIs,        \* recommendMusic's trackURIs
    user,             \* the user GetCurrentUser returned
    playlist,         \* the playlist CreatePlaylist returned
    response,         \* the response text, one element per formatted piece
    retErr,           \* the error value returned with the response
    calls,            \* the client operations invoked, in order, with their outcome
    requests          \* the HTTP requests the client issued, in order

vars == <<pc, client, task, moodDescription, moodProfile, query, tracks,
          initialTracks, moreTracks, seedTrackIDs, seedGenres, trackURIs, user, playlist,
          response, retErr, calls, requests>>

(***************************************************************************)
(* Bounds of the model.                                                    *)
(***************************************************************************)
\* words per description in the classifier's input space
MaxWords == 2
\* items a search response may carry (the request asks for 5; the client
\* does not cut the response down)
MaxSearch == 6
\* items a recommendations or fallback-search response may carry
MaxMore == 2
\* client operations invoked in the client-library specification
MaxCalls == 3

(***************************************************************************)
(* strings: the functions of package strings the program uses              *)
(***************************************************************************)
UpperLetters == "ABCDEFGHIJKLMNOPQRSTUVWXYZ"

LowerLetters == "abcdefghijklmnopqrstuvwxyz"

CharAt(s, i) == SubSeq(s, i, i)

Rest(s) == SubSeq(s, 2, Len(s))

LowerChar(c) ==
    IF \E i \in 1..Len(UpperLetters) : CharAt(UpperLetters, i) = c
    THEN CharAt(LowerLetters, CHOOSE i \in 1..Len(UpperLetters) : CharAt(UpperLetters, i) = c)
    ELSE c

UpperChar(c) ==
    IF \E i \in 1..Len(LowerLetters) : CharAt(LowerLetters, i) = c
    THEN CharAt(UpperLetters, CHOOSE i \in 1..Len(LowerLetters) : CharAt(LowerLetters, i) = c)
    ELSE c

RECURSIVE ToLower(_)
ToLower(s) ==
    IF s = "" THEN "" ELSE LowerChar(CharAt(s, 1)) \o ToLower(Rest(s))

IsSpace(c) == c \in {" ", "\t", "\n", "\r"}

IsLetter(c) ==
    \E i \in 1..Len(LowerLetters) :
        CharAt(LowerLetters, i) = c \/ CharAt(UpperLetters, i) = c

\* strings.Contains
Contains(text, term) ==
    \E i \in 1..(Len(text) - Len(term) + 1) :
        SubSeq(text, i, i + Len(term) - 1) = term

RECURSIVE TrimLeft(_)
TrimLeft(s) ==
    IF s # "" /\ IsSpace(CharAt(s, 1)) THEN TrimLeft(Rest(s)) ELSE s

RECURSIVE TrimRight(_)
TrimRight(s) ==
    IF s # "" /\ IsSpace(CharAt(s, Len(s)))
    THEN TrimRight(SubSeq(s, 1, Len(s) - 1))
    ELSE s

TrimSpace(s) == TrimRight(TrimLeft(s))

\* the prefix left in place
TrimPrefixKept(s, prefix) == s

TrimPrefix(s, prefix) ==
    IF Len(s) >= Len(prefix) /\ SubSeq(s, 1, Len(prefix)) = prefix
    THEN SubSeq(s, Len(prefix) + 1, Len(s))
    ELSE s

RECURSIVE FieldsAcc(_, _, _)
FieldsAcc(s, cur, acc) ==
    IF s = ""
    THEN IF cur = "" THEN acc ELSE Append(acc, cur)
    ELSE IF IsSpace(CharAt(s, 1))
         THEN FieldsAcc(Rest(s), "", IF cur = "" THEN acc ELSE Append(acc, cur))
         ELSE FieldsAcc(Rest(s), cur \o CharAt(s, 1), acc)

\* strings.Fields: the maximal runs of non-space characters
Fields(s) == FieldsAcc(s, "", <<>>)

RECURSIVE Join(_, _)
Join(parts, sep) ==
    IF Len(parts) = 0 THEN ""
    ELSE IF Len(parts) = 1 THEN parts[1]
    ELSE parts[1] \o sep \o Join(Tail(parts), sep)

RECURSIVE TitleFrom(_, _)
TitleFrom(s, prevIsLetter) ==
    IF s = "" THEN ""
    ELSE LET c == CharAt(s, 1)
         IN  (IF prevIsLetter THEN c ELSE UpperChar(c))
             \o TitleFrom(Rest(s), IsLetter(c))

\* strings.Title: the first letter of every word in upper case
Title(s) == TitleFrom(s, FALSE)

(***************************************************************************)
(* package mood                                                            *)
(***************************************************************************)
\* containsAny(text, terms)
containsAny(text, terms) ==
    \E k \in 1..Len(terms) : Contains(text, terms[k])

HappyKeywords ==
    <<"happy", "joyful", "excited", "energetic", "upbeat", "great", "fantastic">>

SadKeywords ==
    <<"sad", "down", "depressed", "lonely", "blue", "heartbroken", "melancholy">>

RelaxedKeywords ==
    <<"calm", "relaxed", "chill", "peaceful", "serene", "tranquil", "zen">>

EnergeticKeywords ==
    <<"pumped", "energetic", "motivated", "fired up", "adrenaline">>

RomanticKeywords ==
    <<"romantic", "in love", "loved", "affectionate", "passionate">>

FocusedKeywords ==
    <<"focused", "studying", "concentrating", "working", "productive">>

\* the profile AnalyzeMood starts from; SearchQueryTerms is left at Go's
\* zero value, the empty string
DefaultProfile ==
    [Mood |-> "neutral", Energy |-> 5, Danceability |-> 5, Valence |-> 5,
     Acousticness |-> 5, SuggestedGenres |-> <<>>, SearchQueryTerms |-> ""]

DetectHappy(description, profile) ==
    IF containsAny(description, HappyKeywords)
    THEN [profile EXCEPT !.Mood = "happy", !.Energy = 8, !.Danceability = 7,
                         !.Valence = 8, !.Acousticness = 3,
                         !.SuggestedGenres = <<"pop", "dance", "electronic", "funk">>,
                         !.SearchQueryTerms = "happy upbeat energetic"]
    ELSE profile

DetectSad(description, profile) ==
    IF containsAny(description, SadKeywords)
    THEN [profile EXCEPT !.Mood = "sad", !.Energy = 3, !.Danceability = 2,
                         !.Valence = 2, !.Acousticness = 7,
                         !.SuggestedGenres = <<"indie", "folk", "soul", "acoustic">>,
                         !.SearchQueryTerms = "sad emotional soulful"]
    ELSE profile

DetectRelaxed(description, profile) ==
    IF containsAny(description, RelaxedKeywords)
    THEN [profile EXCEPT !.Mood = "relaxed", !.Energy = 2, !.Danceability = 3,
                         !.Valence = 5, !.Acousticness = 8,
                         !.SuggestedGenres = <<"ambient", "lo-fi", "jazz", "acoustic">>,
                         !.SearchQueryTerms = "relaxing chill ambient"]
    ELSE profile

\* DetectEnergetic leaving the search terms as the earlier detections set them
DetectEnergeticKeepsTerms(description, profile) ==
    IF containsAny(description, EnergeticKeywords)
    THEN [profile EXCEPT !.Mood = "energetic", !.Energy = 9, !.Danceability = 8,
                         !.Valence = 7, !.Acousticness = 1,
                         !.SuggestedGenres = <<"hip-hop", "electronic", "rock", "metal">>]
    ELSE profile

DetectEnergetic(description, profile) ==
    IF containsAny(description, EnergeticKeywords)
    THEN [profile EXCEPT !.Mood = "energetic", !.Energy = 9, !.Danceability = 8,
                         !.Valence = 7, !.Acousticness = 1,
                         !.SuggestedGenres = <<"hip-hop", "electronic", "rock", "metal">>,
                         !.SearchQueryTerms = "energetic powerful intense"]
    ELSE profile

DetectRomantic(description, profile) ==
    IF containsAny(description, RomanticKeywords)
    THEN [profile EXCEPT !.Mood = "romantic", !.Energy = 4, !.Danceability = 5,
                         !.Valence = 7, !.Acousticness = 6,
                         !.SuggestedGenres = <<"soul", "r&b", "indie", "acoustic pop">>,
                         !.SearchQueryTerms = "romantic love passionate"]
    ELSE profile

DetectFocused(description, profile) ==
    IF containsAny(description, FocusedKeywords)
    THEN [profile EXCEPT !.Mood = "focused", !.Energy = 5, !.Danceability = 3,
                         !.Valence = 5, !.Acousticness = 5,
                         !.SuggestedGenres = <<"lo-fi", "classical", "ambient", "instrumental">>,
                         !.SearchQueryTerms = "focus study concentration"]
    ELSE profile

\* AnalyzeMood as an else-if chain: the first matching detection wins
AnalyzeMoodFirstMatch(text) ==
    LET description == ToLower(text)
    IN  IF containsAny(description, HappyKeywords)
        THEN DetectHappy(description, DefaultProfile)
        ELSE IF containsAny(description, SadKeywords)
        THEN DetectSad(description, DefaultProfile)
        ELSE IF containsAny(description, RelaxedKeywords)
        THEN DetectRelaxed(description, DefaultProfile)
        ELSE IF containsAny(description, EnergeticKeywords)
        THEN DetectEnergetic(description, DefaultProfile)
        ELSE IF containsAny(description, RomanticKeywords)
        THEN DetectRomantic(description, DefaultProfile)
        ELSE DetectFocused(description, DefaultProfile)

\* AnalyzeMood: the six detections run in this order on the lowercased text,
\* each overwriting what the earlier ones set
AnalyzeMood(text) ==
    LET description == ToLower(text)
        p1 == DetectHappy(description, DefaultProfile)
        p2 == DetectSad(description, p1)
        p3 == DetectRelaxed(description, p2)
        p4 == DetectEnergetic(description, p3)
        p5 == DetectRomantic(description, p4)
    IN  DetectFocused(description, p5)

\* FormatTrackRecommendation, kept as the format's three arguments
FormatTrackRecommendation(trackName, artistName, spotifyURL) ==
    [name |-> trackName, artist |-> artistName, url |-> spotifyURL]

(***************************************************************************)
(* package spotify: the client                                             *)
(*                                                                         *)
(* An HTTP exchange is a record: transport (client.Do returned an error),  *)
(* status, decodes (the body is JSON of the expected shape) and body (the  *)
(* decoded value).  Every operation yields [val, err, reqs]: the value and *)
(* the error it returns and the requests it issued.                        *)
(***************************************************************************)
spotifyAuthURL == "https://accounts.spotify.com/api/token"

spotifySearchURL == "https://api.spotify.com/v1/search"

spotifyAPIURL == "https://api.spotify.com/v1"

\* Go's nil error
NoErr == "nil"

StatusOK == 200

StatusCreated == 201

\* the statuses a response may carry: the two the client accepts and a refusal
Statuses == {StatusOK, StatusCreated, 401}

Result(val, err, reqs) == [val |-> val, err |-> err, reqs |-> reqs]

\* NewClient
NewClient(clientID, clientSecret) ==
    [clientID |-> clientID, clientSecret |-> clientSecret, accessToken |-> ""]

\* Authenticate(): val is the client after the call.  The Basic credential is
\* the base64 text of clientID:clientSecret, written here unencoded.
Authenticate(c, refreshToken, resp) ==
    LET req == [method |-> "POST", url |-> spotifyAuthURL,
                auth |-> "Basic " \o c.clientID \o ":" \o c.clientSecret,
                params |-> IF refreshToken # ""
                           THEN [grant_type |-> "refresh_token", refresh_token |-> refreshToken]
                           ELSE [grant_type |-> "client_credentials"]]
    IN  IF resp.transport
        THEN Result(c, "failed to authenticate", <<req>>)
        ELSE IF resp.status # StatusOK
        THEN Result(c, "auth failed with status", <<req>>)
        ELSE IF ~resp.decodes
        THEN Result(c, "failed to decode auth response", <<req>>)
        ELSE IF ~resp.body.hasToken
        THEN Result(c, "access token not found in response", <<req>>)
        ELSE Result([c EXCEPT !.accessToken = resp.body.access_token], NoErr, <<req>>)

\* SearchTracks without its accessToken check
SearchTracksUnguarded(c, q, limit, resp) ==
    LET req == [method |-> "GET", url |-> spotifySearchURL,
                auth |-> "Bearer " \o c.accessToken,
                params |-> [q |-> q, type |-> "track", limit |-> limit]]
    IN  IF resp.transport
        THEN Result(<<>>, "failed to search tracks", <<req>>)
        ELSE IF resp.status # StatusOK
        THEN Result(<<>>, "search failed with status", <<req>>)
        ELSE IF ~resp.decodes
        THEN Result(<<>>, "failed to decode search response", <<req>>)
        ELSE Result(resp.body, NoErr, <<req>>)

SearchTracks(c, q, limit, resp) ==
    LET req == [method |-> "GET", url |-> spotifySearchURL, auth |-> "Bearer " \o c.accessToken,
                params |-> [q |-> q, type |-> "track", limit |-> limit]]
    IN  IF c.accessToken = ""
        THEN Result(<<>>, "not authenticated", <<>>)
        ELSE IF resp.transport
        THEN Result(<<>>, "failed to search tracks", <<req>>)
        ELSE IF resp.status # StatusOK
        THEN Result(<<>>, "search failed with status", <<req>>)
        ELSE IF ~resp.decodes
        THEN Result(<<>>, "failed to decode search response", <<req>>)
        ELSE Result(resp.body, NoErr, <<req>>)

GetRecommendations(c, seedTracks, genres, moodParams, limit, resp) ==
    LET req == [method |-> "GET", url |-> spotifyAPIURL \o "/recommendations",
                auth |-> "Bearer " \o c.accessToken,
                params |-> [seed_tracks |-> Join(seedTracks, ","),
                            seed_genres |-> Join(genres, ","),
                            targets |-> moodParams, limit |-> limit]]
    IN  IF c.accessToken = ""
        THEN Result(<<>>, "not authenticated", <<>>)
        ELSE IF resp.transport
        THEN Result(<<>>, "failed to get recommendations", <<req>>)
        ELSE IF resp.status # StatusOK
        THEN Result(<<>>, "recommendations failed with status", <<req>>)
        ELSE IF ~resp.decodes
        THEN Result(<<>>, "failed to decode recommendations response", <<req>>)
        ELSE Result(resp.body, NoErr, <<req>>)

\* the nil *User and *Playlist
NoUser == [ID |-> "", DisplayName |-> "", isNil |-> TRUE]

NoPlaylist ==
    [ID |-> "", Name |-> "", ExternalURLs |-> [Spotify |-> ""], isNil |-> TRUE]

GetCurrentUser(c, resp) ==
    LET req == [method |-> "GET", url |-> spotifyAPIURL \o "/me",
                auth |-> "Bearer " \o c.accessToken, params |-> <<>>]
    IN  IF c.accessToken = ""
        THEN Result(NoUser, "not authenticated", <<>>)
        ELSE IF resp.transport
        THEN Result(NoUser, "failed to get user", <<req>>)
        ELSE IF resp.status # StatusOK
        THEN Result(NoUser, "get user failed with status", <<req>>)
        ELSE IF ~resp.decodes
        THEN Result(NoUser, "failed to decode user response", <<req>>)
        ELSE Result(resp.body, NoErr, <<req>>)

CreatePlaylist(c, userID, name, description, resp) ==
    LET req == [method |-> "POST",
                url |-> spotifyAPIURL \o "/users/" \o userID \o "/playlists",
                auth |-> "Bearer " \o c.accessToken,
                params |-> [name |-> name, description |-> description, public |-> "false"]]
    IN  IF c.accessToken = ""
        THEN Result(NoPlaylist, "not authenticated", <<>>)
        ELSE IF resp.transport
        THEN Result(NoPlaylist, "failed to create playlist", <<req>>)
        ELSE IF resp.status # StatusCreated /\ resp.status # StatusOK
        THEN Result(NoPlaylist, "create playlist failed with status", <<req>>)
        ELSE IF ~resp.decodes
        THEN Result(NoPlaylist, "failed to decode playlist response", <<req>>)
        ELSE Result(resp.body, NoErr, <<req>>)

AddTracksToPlaylist(c, playlistID, uris, resp) ==
    LET req == [method |-> "POST",
                url |-> spotifyAPIURL \o "/playlists/" \o playlistID \o "/tracks",
                auth |-> "Bearer " \o c.accessToken, params |-> [uris |-> uris]]
    IN  IF c.accessToken = ""
        THEN Result(FALSE, "not authenticated", <<>>)
        ELSE IF resp.transport
        THEN Result(FALSE, "failed to add tracks", <<req>>)
        ELSE IF resp.status # StatusCreated /\ resp.status # StatusOK
        THEN Result(FALSE, "add tracks failed with status", <<req>>)
        ELSE Result(TRUE, NoErr, <<req>>)

(***************************************************************************)
(* main.go: the orchestrator's pure steps                                  *)
(***************************************************************************)
\* the most seeds the recommendations endpoint takes
MaxSeeds == 5

\* the limit of the first search
SearchLimit == 5

\* the limit of the recommendations call and of the fallback search
MoreLimit == 15

\* the query without the fallback to the description
SearchQueryTermsOnly(profile, description) == profile.SearchQueryTerms

\* the query of the first search: the profile's terms, else the description
SearchQuery(profile, description) ==
    IF profile.SearchQueryTerms = "" THEN description ELSE profile.SearchQueryTerms

\* seedTrackIDs: the non-empty IDs of the tracks found, in order
RECURSIVE SeedTrackIDs(_)
SeedTrackIDs(ts) ==
    IF Len(ts) = 0 THEN <<>>
    ELSE (IF ts[1].ID # "" THEN <<ts[1].ID>> ELSE <<>>) \o SeedTrackIDs(Tail(ts))

\* seedGenres without the cut to the seeds left free
SeedGenresUncapped(ids, profile) ==
    IF Len(ids) < MaxSeeds THEN profile.SuggestedGenres ELSE <<>>

\* seedGenres: genres fill the seeds the track IDs leave free
SeedGenres(ids, profile) ==
    IF Len(ids) < MaxSeeds
    THEN LET remaining == MaxSeeds - Len(ids)
         IN  IF Len(profile.SuggestedGenres) > 0
             THEN IF Len(profile.SuggestedGenres) > remaining
                  THEN SubSeq(profile.SuggestedGenres, 1, remaining)
                  ELSE profile.SuggestedGenres
             ELSE <<>>
    ELSE <<>>

MoodParams(profile) ==
    [target_energy |-> profile.Energy, target_danceability |-> profile.Danceability,
     target_valence |-> profile.Valence, target_acousticness |-> profile.Acousticness]

\* the fallback query without the mood label
FallbackQuerySame(q, profile) == q

FallbackQuery(q, profile) == q \o " " \o profile.Mood

ArtistName(track) ==
    IF Len(track.Artists) > 0 THEN track.Artists[1].Name ELSE "Unknown"

\* one "%d. %s\n" piece of the response
TrackLine(i, track) ==
    [kind |-> "track", n |-> i,
     text |-> FormatTrackRecommendation(track.Name, ArtistName(track),
                                        track.ExternalURLs.Spotify)]

ResponseHeader(profile) == [kind |-> "header", mood |-> profile.Mood]

\* the response built by the loop over tracks
BuildResponse(profile, ts) ==
    <<ResponseHeader(profile)>> \o [i \in 1..Len(ts) |-> TrackLine(i, ts[i])]

\* trackURIs without the test for an empty URI
TrackURIsAll(ts) == [i \in 1..Len(ts) |-> ts[i].URI]

\* trackURIs: the non-empty URIs collected by the same loop
RECURSIVE TrackURIs(_)
TrackURIs(ts) ==
    IF Len(ts) = 0 THEN <<>>
    ELSE (IF ts[1].URI # "" THEN <<ts[1].URI>> ELSE <<>>) \o TrackURIs(Tail(ts))

PlaylistName(profile) == "Mood Analyst: " \o Title(profile.Mood) \o " Vibes"

PlaylistDescription(profile) ==
    "A playlist curated for your " \o profile.Mood \o " mood."

PlaylistNote(p) == [kind |-> "playlist", url |-> p.ExternalURLs.Spotify]

SearchFailedMessage(profile) == <<[kind |-> "apology", mood |-> profile.Mood]>>

NoSongsMessage(profile) == <<[kind |-> "nosongs", mood |-> profile.Mood]>>

NoCommandMessage == <<[kind |-> "nocommand"]>>

UsageMessage == <<[kind |-> "usage"]>>

UnknownCommandMessage(command) == <<[kind |-> "unknown", command |-> command]>>

\* the search error handed on to the caller
SearchFailedErrReturned(err) == err

\* the error recommendMusic returns after a failed search
SearchFailedErr(err) == NoErr

\* no zero-results test
NoSongsUnchecked(ts) == FALSE

\* the zero-results test after the first search
NoSongs(ts) == Len(ts) = 0

\* tracks after the fallback search returned r
AfterFallback(ts, r) ==
    IF r.err = NoErr /\ Len(r.val) > 0 THEN ts \o r.val ELSE ts

\* the note appended whatever AddTracksToPlaylist returned
AfterAddUnchecked(resp, r, p) == Append(resp, PlaylistNote(p))

\* the response after AddTracksToPlaylist returned r
AfterAdd(resp, r, p) ==
    IF r.err = NoErr THEN Append(resp, PlaylistNote(p)) ELSE resp

\* whether the playlist is attempted after GetCurrentUser returned r
\* the playlist step entered whatever GetCurrentUser answered
UserOKAlways(r) == TRUE

UserOK(r) == r.err = NoErr /\ ~r.val.isNil

\* an entry of calls: the operation, its arguments and whether it returned a nil error
Called(op, args, r) == [op |-> op, args |-> args, ok |-> r.err = NoErr]

(***************************************************************************)
(* The environment: what the catalog may answer and what the host may ask  *)
(***************************************************************************)
Digits == "0123456789"

Defects == {"noID", "noURI"}

\* the i-th item of a response from src; a "noID" item came without an id,
\* a "noURI" item without uri and without artists
Track(src, i, defect) ==
    LET d == CharAt(Digits, i + 1)
    IN  [ID |-> IF defect = "noID" THEN "" ELSE src \o d,
         Name |-> "song " \o src \o d,
         Artists |-> IF defect = "noURI" THEN <<>>
                     ELSE <<[Name |-> "artist " \o d], [Name |-> "guest"]>>,
         ExternalURLs |-> [Spotify |-> "https://open.spotify.com/track/" \o src \o d],
         PreviewURL |-> "",
         URI |-> IF defect = "noURI" THEN "" ELSE "spotify:track:" \o src \o d]

TrackList(src, n, pos, defect) ==
    [i \in 1..n |-> Track(src, i, IF i = pos THEN defect ELSE "none")]

\* the item lists of up to max items with at most one defective item
TrackLists(src, max) ==
    {TrackList(src, n, 0, "none") : n \in 0..max}
    \cup {TrackList(src, n[1], n[2], d) :
            n \in {x \in (1..max) \X (1..max) : x[2] <= x[1]}, d \in Defects}

\* the exchanges an operation may meet: no answer at all, an answer of any
\* status whose body does not decode, an answer of any status with a body
Responses(bodies) ==
    {[transport |-> TRUE, status |-> 0, decodes |-> FALSE, body |-> <<>>]}
    \cup [transport : {FALSE}, status : Statuses, decodes : {FALSE}, body : {<<>>}]
    \cup [transport : {FALSE}, status : Statuses, decodes : {TRUE}, body : bodies]

AuthBodies ==
    {[hasToken |-> FALSE, access_token |-> ""],
     [hasToken |-> TRUE, access_token |-> "BQD-token"],
     [hasToken |-> TRUE, access_token |-> ""]}

UserBodies == {[ID |-> "user1", DisplayName |-> "User One", isNil |-> FALSE]}

PlaylistBodies ==
    {[ID |-> "pl1", Name |-> "created",
      ExternalURLs |-> [Spotify |-> "https://open.spotify.com/playlist/pl1"],
      isNil |-> FALSE]}

RefreshTokens == {"", "refresh"}

\* the tasks the host hands to ProcessTask
Tasks ==
    {"", "  ", "/", "help", "/mood_analyzer", "Mood_Analyzer  ",
     "mood_analyzer I feel happy and energetic",
     "/mood_analyzer I'm feeling sad and lonely",
     "mood_analyzer I want to relax and chill",
     "mood_analyzer I'm focused and working",
     "MOOD_ANALYZER I'm in a  romantic mood ",
     "mood_analyzer Banana bread recipe",
     "mood_analyzer so happy but studying"}

NoTracks == <<>>

ZeroProfile ==
    [Mood |-> "", Energy |-> 0, Danceability |-> 0, Valence |-> 0,
     Acousticness |-> 0, SuggestedGenres |-> <<>>, SearchQueryTerms |-> ""]

ZeroClient == [clientID |-> "", clientSecret |-> "", accessToken |-> ""]

\* the variables of one request, before it starts
RequestIdle ==
    /\ task = ""
    /\ moodDescription = ""
    /\ moodProfile = ZeroProfile
    /\ query = ""
    /\ tracks = NoTracks
    /\ initialTracks = NoTracks
    /\ moreTracks = NoTracks
    /\ seedTrackIDs = <<>>
    /\ seedGenres = <<>>
    /\ trackURIs = <<>>
    /\ user = NoUser
    /\ playlist = NoPlaylist
    /\ response = <<>>
    /\ retErr = NoErr
    /\ calls = <<>>
    /\ requests = <<>>

(***************************************************************************)
(* main.go: the process                                                    *)
(***************************************************************************)
Init ==
    /\ pc = "main"
    /\ client = ZeroClient
    /\ RequestIdle

requestVars ==
    <<task, moodDescription, moodProfile, query, tracks, initialTracks, moreTracks,
      seedTrackIDs, seedGenres, trackURIs, user, playlist, response, retErr,
      calls, requests>>

\* main: spotify.LoadFromEnv; log.Fatalf when a credential is missing
LoadFromEnv ==
    /\ pc = "main"
    /\ \E clientID \in {"", "id"}, clientSecret \in {"", "secret"} :
         IF clientID = "" \/ clientSecret = ""
         THEN pc' = "exited" /\ UNCHANGED client
         ELSE pc' = "authenticate" /\ client' = NewClient(clientID, clientSecret)
    /\ UNCHANGED requestVars

\* main: spotifyClient.Authenticate; log.Fatalf when it fails
MainAuthenticate ==
    /\ pc = "authenticate"
    /\ \E refreshToken \in RefreshTokens, resp \in Responses(AuthBodies) :
         LET r == Authenticate(client, refreshToken, resp)
         IN  /\ client' = r.val
             /\ pc' = IF r.err # NoErr THEN "exited" ELSE "newagent"
    /\ UNCHANGED requestVars

\* main: agent.NewEnhancedAgent, then enhancedAgent.Run
NewEnhancedAgent ==
    /\ pc = "newagent"
    /\ \E ok \in BOOLEAN : pc' = IF ok THEN "serving" ELSE "exited"
    /\ UNCHANGED <<client, requestVars>>

\* ProcessTask up to recommendMusic's first client call
ProcessTask ==
    /\ pc = "serving"
    /\ \E t \in Tasks :
         LET cleaned == TrimPrefix(TrimSpace(t), "/")
             parts == Fields(ToLower(cleaned))
             command == parts[1]
             args == Tail(parts)
             description == Join(args, " ")
             profile == AnalyzeMood(description)
         IN  /\ task' = t
             /\ IF Len(parts) = 0
                THEN /\ response' = NoCommandMessage
                     /\ pc' = "returned"
                     /\ UNCHANGED <<moodDescription, moodProfile, query>>
                ELSE IF command # "mood_analyzer"
                THEN /\ response' = UnknownCommandMessage(command)
                     /\ pc' = "returned"
                     /\ UNCHANGED <<moodDescription, moodProfile, query>>
                ELSE IF Len(args) = 0
                THEN /\ response' = UsageMessage
                     /\ pc' = "returned"
                     /\ UNCHANGED <<moodDescription, moodProfile, query>>
                ELSE /\ moodDescription' = description
                     /\ moodProfile' = profile
                     /\ query' = SearchQuery(profile, description)
                     /\ pc' = "search"
                     /\ UNCHANGED response
    /\ retErr' = NoErr
    /\ UNCHANGED <<client, tracks, initialTracks, moreTracks, seedTrackIDs,
                   seedGenres, trackURIs, user, playlist, calls, requests>>

\* recommendMusic: the first SearchTracks and the seeds taken from it
RecommendSearch ==
    /\ pc = "search"
    /\ \E resp \in Responses(TrackLists("s", MaxSearch)) :
         LET r == SearchTracks(client, query, SearchLimit, resp)
         IN  /\ calls' = Append(calls, Called("SearchTracks", <<query, SearchLimit>>, r))
             /\ requests' = requests \o r.reqs
             /\ IF r.err # NoErr
                THEN /\ response' = SearchFailedMessage(moodProfile)
                     /\ retErr' = SearchFailedErr(r.err)
                     /\ pc' = "returned"
                     /\ UNCHANGED <<tracks, initialTracks, seedTrackIDs, seedGenres>>
                ELSE IF NoSongs(r.val)
                THEN /\ response' = NoSongsMessage(moodProfile)
                     /\ retErr' = NoErr
                     /\ pc' = "returned"
                     /\ UNCHANGED <<tracks, initialTracks, seedTrackIDs, seedGenres>>
                ELSE /\ tracks' = r.val
                     /\ initialTracks' = r.val
                     /\ seedTrackIDs' = SeedTrackIDs(r.val)
                     /\ seedGenres' = SeedGenres(SeedTrackIDs(r.val), moodProfile)
                     /\ pc' = "recommend"
                     /\ UNCHANGED <<response, retErr>>
    /\ UNCHANGED <<client, task, moodDescription, moodProfile, query, moreTracks,
                   trackURIs, user, playlist>>

\* recommendMusic: GetRecommendations; on success its tracks are appended and
\* the response is built
RecommendMore ==
    /\ pc = "recommend"
    /\ \E resp \in Responses(TrackLists("r", MaxMore)) :
         LET r == GetRecommendations(client, seedTrackIDs, seedGenres,
                                     MoodParams(moodProfile), MoreLimit, resp)
             all == tracks \o r.val
         IN  /\ calls' = Append(calls, Called("GetRecommendations",
                                              <<seedTrackIDs, seedGenres>>, r))
             /\ requests' = requests \o r.reqs
             /\ moreTracks' = r.val
             /\ IF r.err = NoErr
                THEN /\ tracks' = all
                     /\ response' = BuildResponse(moodProfile, all)
                     /\ trackURIs' = TrackURIs(all)
                     /\ pc' = "user"
                ELSE /\ pc' = "fallback"
                     /\ UNCHANGED <<tracks, response, trackURIs>>
    /\ UNCHANGED <<client, task, moodDescription, moodProfile, query, initialTracks,
                   seedTrackIDs, seedGenres, user, playlist, retErr>>

\* recommendMusic: the fallback search after failed recommendations, then
\* the response is built
RecommendFallback ==
    /\ pc = "fallback"
    /\ \E resp \in Responses(TrackLists("f", MaxMore)) :
         LET fallbackQuery == FallbackQuery(query, moodProfile)
             r == SearchTracks(client, fallbackQuery, MoreLimit, resp)
             all == AfterFallback(tracks, r)
         IN  /\ calls' = Append(calls, Called("SearchTracks", <<fallbackQuery, MoreLimit>>, r))
             /\ requests' = requests \o r.reqs
             /\ moreTracks' = r.val
             /\ tracks' = all
             /\ response' = BuildResponse(moodProfile, all)
             /\ trackURIs' = TrackURIs(all)
             /\ pc' = "user"
    /\ UNCHANGED <<client, task, moodDescription, moodProfile, query, initialTracks,
                   seedTrackIDs, seedGenres, user, playlist, retErr>>

\* recommendMusic: GetCurrentUser
RecommendUser ==
    /\ pc = "user"
    /\ \E resp \in Responses(UserBodies) :
         LET r == GetCurrentUser(client, resp)
         IN  /\ calls' = Append(calls, Called("GetCurrentUser", <<>>, r))
             /\ requests' = requests \o r.reqs
             /\ IF UserOK(r)
                THEN user' = r.val /\ pc' = "create"
                ELSE pc' = "returned" /\ UNCHANGED user
    /\ UNCHANGED <<client, task, moodDescription, moodProfile, query, tracks,
                   initialTracks, moreTracks, seedTrackIDs, seedGenres, trackURIs,
                   playlist, response, retErr>>

\* recommendMusic: CreatePlaylist
RecommendCreate ==
    /\ pc = "create"
    /\ \E resp \in Responses(PlaylistBodies) :
         LET name == PlaylistName(moodProfile)
             r == CreatePlaylist(client, user.ID, name,
                                 PlaylistDescription(moodProfile), resp)
         IN  /\ calls' = Append(calls, Called("CreatePlaylist", <<user.ID, name>>, r))
             /\ requests' = requests \o r.reqs
             /\ IF r.err = NoErr
                THEN playlist' = r.val /\ pc' = "add"
                ELSE pc' = "returned" /\ UNCHANGED playlist
    /\ UNCHANGED <<client, task, moodDescription, moodProfile, query, tracks,
                   initialTracks, moreTracks, seedTrackIDs, seedGenres, trackURIs,
                   user, response, retErr>>

\* recommendMusic: AddTracksToPlaylist and the note on its success
RecommendAdd ==
    /\ pc = "add"
    /\ \E resp \in Responses({<<>>}) :
         LET r == AddTracksToPlaylist(client, playlist.ID, trackURIs, resp)
         IN  /\ calls' = Append(calls, Called("AddTracksToPlaylist",
                                              <<playlist.ID, trackURIs>>, r))
             /\ requests' = requests \o r.reqs
             /\ response' = AfterAdd(response, r, playlist)
             /\ pc' = "returned"
    /\ UNCHANGED <<client, task, moodDescription, moodProfile, query, tracks,
                   initialTracks, moreTracks, seedTrackIDs, seedGenres, trackURIs,
                   user, playlist, retErr>>

\* ProcessTask has returned; the host waits for the next task
Return ==
    /\ pc = "returned"
    /\ pc' = "serving"
    /\ task' = ""
    /\ moodDescription' = ""
    /\ moodProfile' = ZeroProfile
    /\ query' = ""
    /\ tracks' = NoTracks
    /\ initialTracks' = NoTracks
    /\ moreTracks' = NoTracks
    /\ seedTrackIDs' = <<>>
    /\ seedGenres' = <<>>
    /\ trackURIs' = <<>>
    /\ user' = NoUser
    /\ playlist' = NoPlaylist
    /\ response' = <<>>
    /\ retErr' = NoErr
    /\ calls' = <<>>
    /\ requests' = <<>>
    /\ UNCHANGED client

Next ==
    \/ LoadFromEnv
    \/ MainAuthenticate
    \/ NewEnhancedAgent
    \/ ProcessTask
    \/ RecommendSearch
    \/ RecommendMore
    \/ RecommendFallback
    \/ RecommendUser
    \/ RecommendCreate
    \/ RecommendAdd
    \/ Return

Spec == Init /\ [][Next]_vars

(***************************************************************************)
(* The classifier on its own: AnalyzeMood applied to a space of texts      *)
(***************************************************************************)
RECURSIVE SeqToSet(_)
SeqToSet(q) == IF Len(q) = 0 THEN {} ELSE {q[1]} \cup SeqToSet(Tail(q))

AllKeywords ==
    SeqToSet(HappyKeywords \o SadKeywords \o RelaxedKeywords
             \o EnergeticKeywords \o RomanticKeywords \o FocusedKeywords)

\* words that hit a keyword, hit one inside a longer word, hit one only
\* together with their neighbour, or hit none
Vocabulary ==
    {"happy", "Energetic", "sad", "download", "chill", "pumped", "fired", "up",
     "in", "love", "beloved", "FOCUSED", "banana", "bread"}

RECURSIVE Phrases(_)
Phrases(n) ==
    IF n = 0 THEN {}
    ELSE IF n = 1 THEN Vocabulary
    ELSE Phrases(n - 1) \cup {p \o " " \o w : p \in Phrases(n - 1), w \in Vocabulary}

Descriptions == AllKeywords \cup Phrases(MaxWords)

InitMood ==
    /\ pc = "classify"
    /\ client = ZeroClient
    /\ moodDescription \in Descriptions
    /\ task = ""
    /\ moodProfile = ZeroProfile
    /\ query = ""
    /\ tracks = NoTracks
    /\ initialTracks = NoTracks
    /\ moreTracks = NoTracks
    /\ seedTrackIDs = <<>>
    /\ seedGenres = <<>>
    /\ trackURIs = <<>>
    /\ user = NoUser
    /\ playlist = NoPlaylist
    /\ response = <<>>
    /\ retErr = NoErr
    /\ calls = <<>>
    /\ requests = <<>>

\* recommendMusic up to its first client call: the profile and the query
Classify ==
    /\ pc = "classify"
    /\ moodProfile' = AnalyzeMood(moodDescription)
    /\ query' = SearchQuery(AnalyzeMood(moodDescription), moodDescription)
    /\ pc' = "classified"
    /\ UNCHANGED <<client, task, moodDescription, tracks, initialTracks,
                   moreTracks, seedTrackIDs, seedGenres, trackURIs, user, playlist, response,
                   retErr, calls, requests>>

NextMood == Classify

SpecMood == InitMood /\ [][NextMood]_vars

(***************************************************************************)
(* The client on its own: its six operations invoked in any order on a     *)
(* client fresh from NewClient                                             *)
(***************************************************************************)
InitClient ==
    /\ pc = "client"
    /\ client = NewClient("id", "secret")
    /\ RequestIdle

clientFrame ==
    <<pc, task, moodDescription, moodProfile, query, initialTracks, moreTracks,
      seedTrackIDs, seedGenres, trackURIs, response>>

\* the bookkeeping of one invocation: its log entry, its error, its requests
Invoked(op, args, r) ==
    /\ Len(calls) < MaxCalls
    /\ calls' = Append(calls, Called(op, args, r))
    /\ retErr' = r.err
    /\ requests' = requests \o r.reqs

ClientAuthenticate ==
    /\ \E refreshToken \in RefreshTokens, resp \in Responses(AuthBodies) :
         LET r == Authenticate(client, refreshToken, resp)
         IN  Invoked("Authenticate", <<>>, r) /\ client' = r.val
    /\ UNCHANGED <<clientFrame, tracks, user, playlist>>

ClientSearchTracks ==
    /\ \E q \in {"happy upbeat energetic"}, limit \in {SearchLimit, MoreLimit},
          resp \in Responses(TrackLists("s", 1)) :
         LET r == SearchTracks(client, q, limit, resp)
         IN  Invoked("SearchTracks", <<q, limit>>, r) /\ tracks' = r.val
    /\ UNCHANGED <<clientFrame, client, user, playlist>>

ClientGetRecommendations ==
    /\ \E ids \in {<<>>, <<"s1">>}, genres \in {<<>>, <<"pop", "dance">>},
          resp \in Responses(TrackLists("r", 1)) :
         LET r == GetRecommendations(client, ids, genres, MoodParams(DefaultProfile),
                                     MoreLimit, resp)
         IN  Invoked("GetRecommendations", <<ids, genres>>, r) /\ tracks' = r.val
    /\ UNCHANGED <<clientFrame, client, user, playlist>>

ClientGetCurrentUser ==
    /\ \E resp \in Responses(UserBodies) :
         LET r == GetCurrentUser(client, resp)
         IN  Invoked("GetCurrentUser", <<>>, r) /\ user' = r.val
    /\ UNCHANGED <<clientFrame, client, tracks, playlist>>

ClientCreatePlaylist ==
    /\ \E userID \in {"user1"}, resp \in Responses(PlaylistBodies) :
         LET r == CreatePlaylist(client, userID, "name", "description", resp)
         IN  Invoked("CreatePlaylist", <<userID, "name">>, r) /\ playlist' = r.val
    /\ UNCHANGED <<clientFrame, client, tracks, user>>

ClientAddTracksToPlaylist ==
    /\ \E playlistID \in {"pl1"}, uris \in {<<>>, <<"spotify:track:s1">>},
          resp \in Responses({<<>>}) :
         LET r == AddTracksToPlaylist(client, playlistID, uris, resp)
         IN  Invoked("AddTracksToPlaylist", <<playlistID, uris>>, r)
    /\ UNCHANGED <<clientFrame, client, tracks, user, playlist>>

NextClient ==
    \/ ClientAuthenticate
    \/ ClientSearchTracks
    \/ ClientGetRecommendations
    \/ ClientGetCurrentUser
    \/ ClientCreatePlaylist
    \/ ClientAddTracksToPlaylist

SpecClient == InitClient /\ [][NextClient]_vars

(***************************************************************************)
(* The claims                                                              *)
(***************************************************************************)
Last(q) == q[Len(q)]

ClientQueries == {"SearchTracks", "GetRecommendations", "GetCurrentUser",
                  "CreatePlaylist", "AddTracksToPlaylist"}

\* no Authenticate has returned a nil error so far
NeverAuthenticated ==
    \A i \in 1..Len(calls) : ~(calls[i].op = "Authenticate" /\ calls[i].ok)

\* C1: each of SearchTracks, GetRecommendations, GetCurrentUser, CreatePlaylist
\* and AddTracksToPlaylist, invoked on a client on which no Authenticate has
\* succeeded yet, returns the "not authenticated" error, issues no request and
\* leaves the client as it was.
C1_UnauthenticatedCallFails ==
    [][(/\ NeverAuthenticated
        /\ Len(calls') = Len(calls) + 1
        /\ Last(calls').op \in ClientQueries)
       => (/\ retErr' = "not authenticated"
           /\ ~Last(calls').ok
           /\ requests' = requests
           /\ client' = client)]_vars

\* a failed Authenticate (which did issue its request) followed by a refused
\* AddTracksToPlaylist
C1_Witness ==
    /\ Len(calls) = 2
    /\ calls[1].op = "Authenticate" /\ ~calls[1].ok
    /\ calls[2].op = "AddTracksToPlaylist"
    /\ retErr = "not authenticated"
    /\ Len(requests) = 1
    /\ client.accessToken = ""

HappyEnergeticTask == "mood_analyzer I feel happy and energetic"

NonEmptyIDs(ts) == \A i \in 1..Len(ts) : ts[i].ID # ""

IDsOf(ts) == [i \in 1..Len(ts) |-> ts[i].ID]

\* the seeds of the request once the first search returned 5 tracks with IDs:
\* those 5 IDs and no genre, also as passed to GetRecommendations
FiveSeedsNoGenres ==
    (Len(initialTracks) = 5 /\ NonEmptyIDs(initialTracks))
    => /\ seedTrackIDs = IDsOf(initialTracks)
       /\ seedGenres = <<>>
       /\ Len(calls) >= 2 => calls[2].args = <<IDsOf(initialTracks), <<>>>>

\* C2 as stated: "I feel happy and energetic" is classified happy with energy
\* 0.8, the first search asks for "happy upbeat energetic", and 5 tracks with
\* IDs found become the 5 seeds with no genre seed.
C2_Original ==
    task = HappyEnergeticTask
    => /\ moodProfile.Mood = "happy"
       /\ moodProfile.Energy = 8
       /\ query = "happy upbeat energetic"
       /\ Len(calls) >= 1 => calls[1].args = <<"happy upbeat energetic", SearchLimit>>
       /\ FiveSeedsNoGenres

\* C2 amended: "I feel happy and energetic" is classified energetic with energy
\* 0.9 (the energetic rule also matches and runs after the happy rule), the
\* first search asks for "energetic powerful intense", and 5 tracks with IDs
\* found become the 5 seeds with no genre seed.
C2_HappyEnergeticScenario ==
    task = HappyEnergeticTask
    => /\ moodProfile.Mood = "energetic"
       /\ moodProfile.Energy = 9
       /\ query = "energetic powerful intense"
       /\ Len(calls) >= 1 => calls[1].args = <<"energetic powerful intense", SearchLimit>>
       /\ FiveSeedsNoGenres

C2_Witness ==
    /\ task = HappyEnergeticTask
    /\ Len(initialTracks) = 5
    /\ NonEmptyIDs(initialTracks)
    /\ Len(calls) >= 2
    /\ calls[2].op = "GetRecommendations"

\* the rule table of the classifier, in evaluation order
RuleTable ==
    <<[keywords |-> {"happy", "joyful", "excited", "energetic", "upbeat", "great", "fantastic"},
       row |-> [Mood |-> "happy", Energy |-> 8, Danceability |-> 7, Valence |-> 8,
                Acousticness |-> 3,
                SuggestedGenres |-> <<"pop", "dance", "electronic", "funk">>,
                SearchQueryTerms |-> "happy upbeat energetic"]],
      [keywords |-> {"sad", "down", "depressed", "lonely", "blue", "heartbroken", "melancholy"},
       row |-> [Mood |-> "sad", Energy |-> 3, Danceability |-> 2, Valence |-> 2,
                Acousticness |-> 7,
                SuggestedGenres |-> <<"indie", "folk", "soul", "acoustic">>,
                SearchQueryTerms |-> "sad emotional soulful"]],
      [keywords |-> {"calm", "relaxed", "chill", "peaceful", "serene", "tranquil", "zen"},
       row |-> [Mood |-> "relaxed", Energy |-> 2, Danceability |-> 3, Valence |-> 5,
                Acousticness |-> 8,
                SuggestedGenres |-> <<"ambient", "lo-fi", "jazz", "acoustic">>,
                SearchQueryTerms |-> "relaxing chill ambient"]],
      [keywords |-> {"pumped", "energetic", "motivated", "fired up", "adrenaline"},
       row |-> [Mood |-> "energetic", Energy |-> 9, Danceability |-> 8, Valence |-> 7,
                Acousticness |-> 1,
                SuggestedGenres |-> <<"hip-hop", "electronic", "rock", "metal">>,
                SearchQueryTerms |-> "energetic powerful intense"]],
      [keywords |-> {"romantic", "in love", "loved", "affectionate", "passionate"},
       row |-> [Mood |-> "romantic", Energy |-> 4, Danceability |-> 5, Valence |-> 7,
                Acousticness |-> 6,
                SuggestedGenres |-> <<"soul", "r&b", "indie", "acoustic pop">>,
                SearchQueryTerms |-> "romantic love passionate"]],
      [keywords |-> {"focused", "studying", "concentrating", "working", "productive"},
       row |-> [Mood |-> "focused", Energy |-> 5, Danceability |-> 3, Valence |-> 5,
                Acousticness |-> 5,
                SuggestedGenres |-> <<"lo-fi", "classical", "ambient", "instrumental">>,
                SearchQueryTerms |-> "focus study concentration"]]>>

\* the rules of the table with a keyword inside the lowercased text
MatchingRules(text) ==
    LET lowered == ToLower(text)
    IN  {k \in 1..Len(RuleTable) :
            \E w \in RuleTable[k].keywords : Contains(lowered, w)}

LastRule(S) == CHOOSE k \in S : \A j \in S : j <= k

\* C3: when some rule matches the description, the profile AnalyzeMood returns
\* is, in all its fields, the row of the last matching rule of the table.
C3_LastMatchWins ==
    (pc = "classified" /\ MatchingRules(moodDescription) # {})
    => moodProfile = RuleTable[LastRule(MatchingRules(moodDescription))].row

\* a text matching the happy and the focused rule, classified focused
C3_Witness ==
    /\ pc = "classified"
    /\ moodDescription = "happy FOCUSED"
    /\ MatchingRules(moodDescription) = {1, 6}
    /\ moodProfile.Mood = "focused"

\* C4: whatever the external calls answer, a request returns a non-empty
\* response and a nil error.
C4_AlwaysAMessage ==
    pc = "returned" => (Len(response) > 0 /\ retErr = NoErr)

\* a request returned after recommendations, fallback search and user lookup
\* all failed
C4_Witness ==
    /\ pc = "returned"
    /\ Len(calls) = 4
    /\ calls[1].ok
    /\ \A i \in 2..4 : ~calls[i].ok
    /\ Len(requests) = 4

\* C5: when the first search failed or found nothing, the request returns a
\* message carrying the detected mood label, and that search stays the only
\* client call of the request.
C5_NoResultsEndsRequest ==
    (Len(calls) >= 1 /\ (~calls[1].ok \/ initialTracks = NoTracks))
    => /\ pc = "returned"
       /\ Len(calls) = 1
       /\ calls[1].op = "SearchTracks"
       /\ Len(response) = 1
       /\ response[1].kind \in {"apology", "nosongs"}
       /\ response[1].mood = moodProfile.Mood

\* a search that succeeded with zero items
C5_Witness ==
    /\ pc = "returned"
    /\ Len(calls) = 1
    /\ calls[1].ok
    /\ Len(requests) = 1
    /\ response = <<[kind |-> "nosongs", mood |-> "sad"]>>

RecsCalls == {i \in 1..Len(calls) : calls[i].op = "GetRecommendations"}

Min(a, b) == IF a <= b THEN a ELSE b

\* C6: in every GetRecommendations call the genre seeds are the first
\* min(5 - seed track count, genre count) genres of the profile when fewer
\* than 5 seed tracks are passed, and none otherwise.
C6_GenreSeedsFillUp ==
    \A i \in RecsCalls :
        LET ids == calls[i].args[1]
            genres == calls[i].args[2]
            avail == moodProfile.SuggestedGenres
        IN  /\ Len(genres) = IF Len(ids) < 5 THEN Min(5 - Len(ids), Len(avail)) ELSE 0
            /\ genres = SubSeq(avail, 1, Len(genres))

\* two seed tracks and the first three of the four genres
C6_Witness ==
    \E i \in RecsCalls :
        /\ Len(calls[i].args[1]) = 2
        /\ Len(initialTracks) = 3
        /\ calls[i].args[2] = <<"indie", "folk", "soul">>

\* C7 as stated: every GetRecommendations call passes at most 5 seed track
\* IDs, none of them empty, and at most 5 seeds in all.
C7_AtMostFiveSeeds ==
    \A i \in RecsCalls :
        LET ids == calls[i].args[1]
            genres == calls[i].args[2]
        IN  /\ Len(ids) <= 5
            /\ \A k \in 1..Len(ids) : ids[k] # ""
            /\ Len(ids) + Len(genres) <= 5

UserAsked == \E i \in 1..Len(calls) : calls[i].op = "GetCurrentUser"

Succeeded(op) == \E i \in 1..Len(calls) : calls[i].op = op /\ calls[i].ok

PlaylistDone ==
    /\ Succeeded("GetCurrentUser")
    /\ Succeeded("CreatePlaylist")
    /\ Succeeded("AddTracksToPlaylist")

\* resp is a header followed by n track lines numbered 1..n
IsListing(resp, n) ==
    /\ Len(resp) = n + 1
    /\ resp[1].kind = "header"
    /\ \A i \in 1..n : resp[i + 1].kind = "track" /\ resp[i + 1].n = i

\* C8: once the playlist sub-flow was entered, the request returns a nil error
\* and the header plus the numbered track list, followed by the playlist note
\* exactly when GetCurrentUser, CreatePlaylist and AddTracksToPlaylist all
\* succeeded.
C8_PlaylistFailureIsSilent ==
    (pc = "returned" /\ UserAsked)
    => /\ retErr = NoErr
       /\ Len(response) >= Len(tracks) + 1
       /\ IsListing(SubSeq(response, 1, Len(tracks) + 1), Len(tracks))
       /\ IF PlaylistDone
          THEN /\ Len(response) = Len(tracks) + 2
               /\ Last(response) = [kind |-> "playlist",
                                    url |-> "https://open.spotify.com/playlist/pl1"]
          ELSE Len(response) = Len(tracks) + 1

\* the user was found, the playlist was created, adding the tracks failed
C8_Witness ==
    /\ pc = "returned"
    /\ Succeeded("GetCurrentUser")
    /\ Succeeded("CreatePlaylist")
    /\ \E i \in 1..Len(calls) : calls[i].op = "AddTracksToPlaylist" /\ ~calls[i].ok
    /\ Len(response) = Len(tracks) + 1

SearchCalls == {i \in 1..Len(calls) : calls[i].op = "SearchTracks"}

NamesListed(resp) ==
    [i \in 1..(Len(resp) - 1) |-> resp[i + 1].text.name]

NamesOf(ts) == [i \in 1..Len(ts) |-> ts[i].Name]

\* C9: past the recommendation step, a second SearchTracks was issued exactly
\* when GetRecommendations failed, with the first query followed by the mood
\* label and limit 15; the tracks are the first search's results followed by
\* what the recommendations or the second search returned, and the first
\* search's results alone when the second search failed or found nothing.
C9_FallbackSearch ==
    (pc \in {"user", "create", "add"} \/ (pc = "returned" /\ Len(calls) >= 2))
    => /\ calls[1].op = "SearchTracks"
       /\ calls[2].op = "GetRecommendations"
       /\ Cardinality(SearchCalls) = IF calls[2].ok THEN 1 ELSE 2
       /\ ~calls[2].ok =>
            /\ calls[3].op = "SearchTracks"
            /\ calls[3].args = <<calls[1].args[1] \o " " \o moodProfile.Mood, 15>>
            /\ (~calls[3].ok \/ moreTracks = NoTracks) =>
                 /\ tracks = initialTracks
                 /\ NamesListed(SubSeq(response, 1, Len(initialTracks) + 1))
                      = NamesOf(initialTracks)
                 /\ \A k \in 1..Len(response) :
                      response[k].kind = "track" => k <= Len(initialTracks) + 1
       /\ tracks = initialTracks \o moreTracks
       /\ Len(initialTracks) > 0

\* recommendations failed and the second search added tracks, for a
\* description without keywords
C9_Witness ==
    /\ pc = "user"
    /\ ~calls[2].ok
    /\ calls[3].ok
    /\ calls[3].args = <<"banana bread recipe neutral", 15>>
    /\ Len(moreTracks) = 2
    /\ Len(tracks) = Len(initialTracks) + 2

NonEmpty(x) == x # ""

URIsOf(ts) == [i \in 1..Len(ts) |-> ts[i].URI]

AddCalls == {i \in 1..Len(calls) : calls[i].op = "AddTracksToPlaylist"}

\* C10: once the response is built, its track lines are exactly one per track
\* of the final list, numbered 1..n in list order and naming that track, and
\* the URIs passed to AddTracksToPlaylist are the non-empty URIs of those
\* tracks in order.
C10_LinesAndURIs ==
    (pc \in {"user", "create", "add"} \/ (pc = "returned" /\ UserAsked))
    => /\ {k \in 1..Len(response) : response[k].kind = "track"}
            = {i + 1 : i \in 1..Len(tracks)}
       /\ \A i \in 1..Len(tracks) :
            /\ response[i + 1].n = i
            /\ response[i + 1].text.name = tracks[i].Name
            /\ response[i + 1].text.url = tracks[i].ExternalURLs.Spotify
            /\ response[i + 1].text.artist
                 = IF tracks[i].Artists = <<>> THEN "Unknown" ELSE tracks[i].Artists[1].Name
       /\ trackURIs = SelectSeq(URIsOf(tracks), NonEmpty)
       /\ \A i \in AddCalls : calls[i].args[2] = SelectSeq(URIsOf(tracks), NonEmpty)

\* a track without uri is listed in the response and left out of the playlist
C10_Witness ==
    /\ pc = "returned"
    /\ \E i \in AddCalls :
         /\ calls[i].ok
         /\ Len(calls[i].args[2]) = Len(tracks) - 1
    /\ \E k \in 1..Len(tracks) :
         /\ tracks[k].URI = ""
         /\ response[k + 1].text.name = tracks[k].Name

\* C11: a description no rule matches is classified as the neutral default
\* (mood "neutral", the four features 0.5, no genres, no search terms), and the
\* query of the first search is then the description itself.
C11_NeutralDefault ==
    (pc = "classified" /\ MatchingRules(moodDescription) = {})
    => /\ moodProfile = [Mood |-> "neutral", Energy |-> 5, Danceability |-> 5,
                         Valence |-> 5, Acousticness |-> 5,
                         SuggestedGenres |-> <<>>, SearchQueryTerms |-> ""]
       /\ query = moodDescription
       /\ query # ""

\* a text of two words that are keywords of no rule
C11_Witness ==
    /\ pc = "classified"
    /\ moodDescription = "banana bread"
    /\ MatchingRules(moodDescription) = {}
    /\ moodProfile.Mood = "neutral"
    /\ query = "banana bread"

\* the handler is registered: ProcessTask may run or is running
HandlerRegistered ==
    pc \in {"serving", "search", "recommend", "fallback", "user", "create", "add",
            "returned"}

\* C12 as stated: whenever the handler is registered, so whenever ProcessTask
\* runs, the client holds a token its operations accept (a non-empty
\* accessToken); a failed startup authentication ends the process before that.
C12_ServedOnlyWithToken ==
    HandlerRegistered => client.accessToken # ""

\* the part of C12 the code does keep: the process does not pass the
\* authentication step with the token it started with unless Authenticate
\* returned a nil error
C12_FailedAuthenticationExits ==
    [][(pc = "authenticate" /\ pc' = "newagent")
       => \E body \in AuthBodies :
            body.hasToken /\ client'.accessToken = body.access_token]_vars

NoCommandTasks == {"", "  ", "/"}

UsageTasks == {"/mood_analyzer", "Mood_Analyzer  "}

UnknownCommandTasks == {"help"}

RequestStarted ==
    pc \in {"search", "recommend", "fallback", "user", "create", "add", "returned"}

NothingCalled ==
    /\ pc = "returned"
    /\ moodDescription = ""
    /\ moodProfile = ZeroProfile
    /\ query = ""
    /\ calls = <<>>
    /\ requests = <<>>

\* C13: a task without a command word is answered with the no-command message,
\* mood_analyzer without arguments with the usage hint, another command with
\* the message naming it and the valid commands, each without a classifier or
\* client call; mood_analyzer with an argument is classified and goes on to the
\* first search.
C13_Routing ==
    RequestStarted
    => /\ task \in NoCommandTasks
            => (NothingCalled /\ response = <<[kind |-> "nocommand"]>>)
       /\ task \in UsageTasks
            => (NothingCalled /\ response = <<[kind |-> "usage"]>>)
       /\ task \in UnknownCommandTasks
            => (NothingCalled /\ response = <<[kind |-> "unknown", command |-> task]>>)
       /\ task \notin (NoCommandTasks \cup UsageTasks \cup UnknownCommandTasks)
            => /\ moodProfile # ZeroProfile
               /\ moodDescription # ""
               /\ query # ""
               /\ pc = "returned" => Len(calls) >= 1

\* the command with a leading slash and no argument, answered with the hint
C13_Witness ==
    /\ pc = "returned"
    /\ task = "/mood_analyzer"
    /\ response = <<[kind |-> "usage"]>>
    /\ calls = <<>>
    /\ moodProfile = ZeroProfile

\* the step appended one call record of a successful Authenticate
AuthenticateSucceeded ==
    /\ Len(calls') = Len(calls) + 1
    /\ Last(calls').op = "Authenticate"
    /\ Last(calls').ok

\* C14 as stated: over any sequence of client operations the client state
\* changes only in a step of a successful Authenticate, and a client that holds
\* a token its operations accept never goes back to holding none.
C14_TokenWrittenOneWay ==
    [][/\ client' # client => AuthenticateSucceeded
       /\ client.accessToken # "" => client'.accessToken # ""]_vars

\* the frame part of C14, which the code keeps: a failed Authenticate and the
\* other five operations leave the client as it was
C14_OnlySuccessfulAuthenticateWrites ==
    [][client' # client => AuthenticateSucceeded]_vars

\* the recommend flow never calls Authenticate and never changes the client
C14_RequestLeavesClient ==
    [][RequestStarted
       => /\ client' = client
          /\ \A i \in 1..Len(calls') : calls'[i].op # "Authenticate"]_vars

\* the place of a call in the order of one request; a SearchTracks after the
\* first call is the fallback search
CallRank(i) ==
    CASE calls[i].op = "SearchTracks" -> IF i = 1 THEN 1 ELSE 3
      [] calls[i].op = "GetRecommendations" -> 2
      [] calls[i].op = "GetCurrentUser" -> 4
      [] calls[i].op = "CreatePlaylist" -> 5
      [] calls[i].op = "AddTracksToPlaylist" -> 6
      [] OTHER -> 0

\* C15: the calls of one request come in the order initial search,
\* recommendations, fallback search, current user, playlist creation, track
\* addition, each at most once; CreatePlaylist directly follows a successful
\* GetCurrentUser and carries the ID of the user it returned;
\* AddTracksToPlaylist directly follows a successful CreatePlaylist and carries
\* the ID of the playlist it returned.
C15_CallOrder ==
    /\ \A i \in 1..Len(calls) : CallRank(i) # 0
    /\ Len(calls) >= 1 => calls[1].op = "SearchTracks"
    /\ \A i, j \in 1..Len(calls) : i < j => CallRank(i) < CallRank(j)
    /\ \A i \in 2..Len(calls) :
         /\ calls[i].op = "SearchTracks" => calls[i-1].op = "GetRecommendations"
         /\ calls[i].op = "CreatePlaylist"
              => /\ calls[i-1].op = "GetCurrentUser"
                 /\ calls[i-1].ok
                 /\ \E body \in UserBodies : body.ID = calls[i].args[1]
                 /\ user.ID = calls[i].args[1]
         /\ calls[i].op = "AddTracksToPlaylist"
              => /\ calls[i-1].op = "CreatePlaylist"
                 /\ calls[i-1].ok
                 /\ \E body \in PlaylistBodies : body.ID = calls[i].args[1]
                 /\ playlist.ID = calls[i].args[1]
    /\ \A i \in 1..Len(calls) :
         /\ calls[i].op = "CreatePlaylist" => i >= 2
         /\ calls[i].op = "AddTracksToPlaylist" => i >= 2

\* a request that made all six calls, the fallback search included
C15_Witness ==
    /\ pc = "returned"
    /\ Len(calls) = 6
    /\ [i \in 1..6 |-> calls[i].op]
         = <<"SearchTracks", "GetRecommendations", "SearchTracks", "GetCurrentUser",
             "CreatePlaylist", "AddTracksToPlaylist">>
    /\ calls[4].ok /\ calls[5].ok
    /\ calls[5].args[1] = "user1"
    /\ calls[6].args[1] = "pl1"

====
